---------------------------- MODULE Spec2Model ----------------------------
(***************************************************************************)
(* Piper backend (api/index.js): the /api/chat dispatcher with its         *)
(* provider detection, credential resolution, request building and         *)
(* response normalisation, and the /api/models insert and delete handlers  *)
(* over the ia_models table.                                               *)
(*                                                                         *)
(* JavaScript strings that the code inspects or concatenates (URLs, keys,  *)
(* messages, prompts) are sequences of one-character strings, so that      *)
(* toLowerCase, includes, trim and template concatenation are computed.    *)
(* Strings that are only passed through (provider reply text, error        *)
(* messages) are TLA+ strings.                                             *)
(***************************************************************************)
EXTENDS Integers, Sequences, FiniteSets, TLC

VARIABLES
    API_KEYS,       \* process-wide credential table (lines 31-35)
    ia_models,      \* rows of the ia_models table
    chat_pc,        \* position of the POST /api/chat handler
    chat_req,       \* its request body {model_id, message, system_prompt}
    chat_model,     \* modelConfig, once the lookup returned a row
    chat_out,       \* the outbound provider request built by llamarAPI
    chat_net,       \* the awaited network call: none, pending or hung
    chat_got,       \* what the provider call produced, once it returned
    chat_nLookups,  \* data-store lookups issued by the request
    chat_nCalls,    \* provider calls issued by the request
    chat_res,       \* responses sent to the caller, in order
    nextId,         \* next id the store assigns on insert
    add_res,        \* the latest response of POST /api/models
    del_pc,         \* per client: position of DELETE /api/models/:id
    del_id,         \* per client: req.params.id
    del_all,        \* per client: allModels as returned by the count read
    del_seen,       \* per client: rows the table held when the read ran
    del_res,        \* per client: the response sent
    det_pc,         \* detection harness: position
    det_parts,      \* detection harness: the parts the URL was built from
    det_url,        \* detection harness: the URL
    det_tipo        \* detection harness: detectarTipoAPI(det_url)

chatVars   == << chat_pc, chat_req, chat_model, chat_out, chat_net, chat_got,
                 chat_nLookups, chat_nCalls, chat_res >>
modelVars  == << nextId, add_res, del_pc, del_id, del_all, del_seen, del_res >>
detectVars == << det_pc, det_parts, det_url, det_tipo >>
vars       == << API_KEYS, ia_models, chatVars, modelVars, detectVars >>

-----------------------------------------------------------------------------
(* Bounds of the model. *)

\* concurrent DELETE /api/models/:id requests
NumClients == 2

\* ids the model table may use (initial rows plus inserted ones)
MaxRows == 3

\* parts a detection-harness URL is concatenated from
MaxParts == 2

-----------------------------------------------------------------------------
(* JavaScript values. *)

\* undefined / null where a string is expected
Undefined == << "<undefined>" >>

\* a request field holding a JSON value that is not a string (a number)
NonString == << "<number>" >>

\* undefined where a passed-through string is expected
NoText == "<undefined>"

\* JS truthiness of a string-or-undefined value: !x is true for undefined,
\* null and ""
Truthy(s) == s # Undefined /\ s # << >>

\* JS truthiness of a passed-through string
TruthyText(t) == t # NoText /\ t # ""

UpperCase ==
    << "A", "B", "C", "D", "E", "F", "G", "H", "I", "J", "K", "L", "M", "N", "O", "P", "Q", "R", "S", "T", "U", "V", "W", "X",
       "Y", "Z" >>

LowerCase ==
    << "a", "b", "c", "d", "e", "f", "g", "h", "i", "j", "k", "l", "m", "n", "o", "p", "q", "r", "s", "t", "u", "v", "w", "x",
       "y", "z" >>

\* the lower-case letter of each upper-case letter
UpperToLower ==
    [c \in {UpperCase[i] : i \in 1..Len(UpperCase)} |->
        LowerCase[CHOOSE i \in 1..Len(UpperCase) : UpperCase[i] = c]]

\* String.prototype.toLowerCase on one character
LowerChar(c) == IF c \in DOMAIN UpperToLower THEN UpperToLower[c] ELSE c

\* String.prototype.toLowerCase
toLowerCase(s) == [i \in 1..Len(s) |-> LowerChar(s[i])]

\* String.prototype.includes (the bound t holds the value of s, computed once)
includes(s, sub) ==
    \E t \in {s} :
        \E i \in 1..(Len(t) - Len(sub) + 1) : SubSeq(t, i, i + Len(sub) - 1) = sub

WhiteSpace == {" ", "\t", "\n", "\r"}

\* String.prototype.trim
trim(s) ==
    LET keep == {i \in 1..Len(s) : s[i] \notin WhiteSpace}
    IN  IF keep = {} THEN << >>
        ELSE LET lo == CHOOSE i \in keep : \A j \in keep : i <= j
                 hi == CHOOSE i \in keep : \A j \in keep : j <= i
             IN  SubSeq(s, lo, hi)

-----------------------------------------------------------------------------
(* Literals of the source. *)

FRAG_GEMINI ==
    << "g", "e", "n", "e", "r", "a", "t", "i", "v", "e", "l", "a", "n", "g", "u", "a", "g", "e", ".", "g", "o", "o", "g", "l",
       "e", "a", "p", "i", "s", ".", "c", "o", "m" >>

FRAG_ANTHROPIC ==
    << "a", "p", "i", ".", "a", "n", "t", "h", "r", "o", "p", "i", "c", ".", "c", "o", "m" >>

FRAG_GROQ ==
    << "a", "p", "i", ".", "g", "r", "o", "q", ".", "c", "o", "m" >>

FRAG_OPENROUTER ==
    << "o", "p", "e", "n", "r", "o", "u", "t", "e", "r", ".", "a", "i" >>

\* the template literal of lines 242-260
INSTRUCCIONES_GLOBALES ==
    << "\n", "R", "E", "G", "L", "A", "S", " ", "O", "B", "L", "I", "G", "A", "T", "O", "R", "I", "A", "S", " ", "P", "A", "R",
       "A", " ", "T", "O", "D", "A", "S", " ", "L", "A", "S", " ", "R", "E", "S", "P", "U", "E", "S", "T", "A", "S", ":", "\n",
       "\n", "1", ".", " ", "F", "O", "R", "M", "A", "T", "O", " ", "D", "E", " ", "E", "S", "C", "R", "I", "T", "U", "R", "A",
       ":", "\n", " ", " ", " ", "-", " ", "N", "O", " ", "u", "s", "e", "s", " ", "a", "s", "t", "e", "r", "i", "s", "c", "o",
       "s", " ", "(", "*", ")", " ", "p", "a", "r", "a", " ", "e", "n", "f", "a", "t", "i", "z", "a", "r", " ", "t", "e", "x",
       "t", "o", "\n", " ", " ", " ", "-", " ", "N", "O", " ", "u", "s", "e", "s", " ", "e", "m", "o", "j", "i", "s", " ", "e",
       "n", " ", "t", "u", "s", " ", "r", "e", "s", "p", "u", "e", "s", "t", "a", "s", "\n", " ", " ", " ", "-", " ", "E", "s",
       "c", "r", "i", "b", "e", " ", "e", "n", " ", "t", "e", "x", "t", "o", " ", "p", "l", "a", "n", "o", " ", "y", " ", "n",
       "a", "t", "u", "r", "a", "l", "\n", " ", " ", " ", "-", " ", "U", "s", "a", " ", "m", "a", "y", "ú", "s", "c", "u", "l",
       "a", "s", " ", "s", "o", "l", "o", " ", "c", "u", "a", "n", "d", "o", " ", "s", "e", "a", " ", "g", "r", "a", "m", "a",
       "t", "i", "c", "a", "l", "m", "e", "n", "t", "e", " ", "c", "o", "r", "r", "e", "c", "t", "o", "\n", "\n", "2", ".", " ",
       "E", "S", "T", "I", "L", "O", ":", "\n", " ", " ", " ", "-", " ", "R", "e", "s", "p", "u", "e", "s", "t", "a", "s", " ",
       "c", "o", "r", "t", "a", "s", " ", "a", " ", "m", "e", "n", "o", "s", " ", "q", "u", "e", " ", "e", "l", " ", "u", "s",
       "u", "a", "r", "i", "o", " ", "t", "e", " ", "p", "i", "d", "a", " ", "q", "u", "e", " ", "u", "s", "e", "s", " ", "r",
       "e", "s", "p", "u", "e", "s", "t", "a", "s", " ", "m", "a", "s", " ", "l", "a", "r", "g", "a", "s", "\n", " ", "\n", "3",
       ".", " ", "I", "D", "I", "O", "M", "A", ":", "\n", " ", " ", " ", "-", " ", "S", "I", "E", "M", "P", "R", "E", " ", "r",
       "e", "s", "p", "o", "n", "d", "e", " ", "e", "n", " ", "e", "s", "p", "a", "ñ", "o", "l", "\n", " ", " ", " ", "-", " ",
       "U", "s", "a", " ", "a", "c", "e", "n", "t", "o", "s", " ", "y", " ", "p", "u", "n", "t", "u", "a", "c", "i", "ó", "n",
       " ", "c", "o", "r", "r", "e", "c", "t", "a", "m", "e", "n", "t", "e", "\n", " ", " ", " ", "-", " ", "N", "o", " ", "u",
       "s", "e", "s", " ", "a", "s", "t", "e", "r", "i", "c", "o", "s", " ", "p", "o", "r", " ", "n", "i", "n", "g", "ú", "n",
       " ", "m", "o", "t", "i", "v", "o", " ", "a", "l", " ", "e", "s", "c", "r", "i", "b", "i", "r", " ", "\n", "\n", "I", "M",
       "P", "O", "R", "T", "A", "N", "T", "E", ":", " ", "E", "s", "t", "a", "s", " ", "r", "e", "g", "l", "a", "s", " ", "s",
       "o", "n", " ", "o", "b", "l", "i", "g", "a", "t", "o", "r", "i", "a", "s", " ", "y", " ", "s", "e", " ", "a", "p", "l",
       "i", "c", "a", "n", " ", "A", "N", "T", "E", "S", " ", "d", "e", " ", "t", "u", " ", "p", "e", "r", "s", "o", "n", "a",
       "l", "i", "d", "a", "d", " ", "e", "s", "p", "e", "c", "í", "f", "i", "c", "a", ".", "\n" >>

PromptSeparator ==
    << "\n", "\n" >>

UsuarioSeparator ==
    << "\n", "\n", "U", "s", "u", "a", "r", "i", "o", ":", " " >>

KeyParam ==
    << "?", "k", "e", "y", "=" >>

DefaultSystemPrompt ==
    << "E", "r", "e", "s", " ", "u", "n", " ", "a", "s", "i", "s", "t", "e", "n", "t", "e", " ", "ú", "t", "i", "l" >>

Entendido ==
    << "E", "n", "t", "e", "n", "d", "i", "d", "o", "." >>

-----------------------------------------------------------------------------
(* Provider detection. *)

TiposAPI == {"gemini", "anthropic", "groq", "openrouter", "openai"}

\* detectarTipoAPI without the toLowerCase call
detectarTipoAPI_CaseSensitive(url) ==
    IF ~Truthy(url) THEN "openai"
    ELSE IF includes(url, FRAG_GEMINI) THEN "gemini"
    ELSE IF includes(url, FRAG_ANTHROPIC) THEN "anthropic"
    ELSE IF includes(url, FRAG_GROQ) THEN "groq"
    ELSE IF includes(url, FRAG_OPENROUTER) THEN "openrouter"
    ELSE "openai"

\* function detectarTipoAPI(url), lines 268-280
detectarTipoAPI(url) ==
    IF ~Truthy(url) THEN "openai"
    ELSE LET urlLower == toLowerCase(url)
         IN  IF includes(urlLower, FRAG_GEMINI) THEN "gemini"
             ELSE IF includes(urlLower, FRAG_ANTHROPIC) THEN "anthropic"
             ELSE IF includes(urlLower, FRAG_GROQ) THEN "groq"
             ELSE IF includes(urlLower, FRAG_OPENROUTER) THEN "openrouter"
             ELSE "openai"

Part_Scheme ==
    << "h", "t", "t", "p", "s", ":", "/", "/" >>

Part_Path ==
    << "/", "v", "1", "/", "c", "h", "a", "t", "/", "c", "o", "m", "p", "l", "e", "t", "i", "o", "n", "s" >>

Part_GeminiMixed ==
    << "G", "e", "n", "e", "r", "a", "t", "i", "v", "e", "L", "a", "n", "g", "u", "a", "g", "e", ".", "G", "o", "o", "g", "l",
       "e", "A", "P", "I", "s", ".", "c", "o", "m" >>

Part_AnthropicMixed ==
    << "A", "P", "I", ".", "A", "n", "t", "h", "r", "o", "p", "i", "c", ".", "c", "o", "m" >>

Part_GroqUpper ==
    << "A", "P", "I", ".", "G", "R", "O", "Q", ".", "C", "O", "M" >>

Part_OpenRouterMixed ==
    << "O", "p", "e", "n", "R", "o", "u", "t", "e", "r", ".", "A", "I" >>

Part_NearGroq ==
    << "a", "p", "i", ".", "g", "r", "o", "q", ".", "c", "o" >>

Part_NearAnthropic ==
    << "a", "n", "t", "h", "r", "o", "p", "i", "c", ".", "c", "o", "m" >>

Part_NearOpenRouter ==
    << "o", "p", "e", "n", "r", "o", "u", "t", "e", "r", ".", "a" >>

\* The parts detection URLs are concatenated from. frag names the host
\* fragment a part spells (in some letter case), "none" when it spells none;
\* no two parts spell a fragment across their boundary.
DetectParts ==
    { [text |-> Part_Scheme,          frag |-> "none"],
      [text |-> Part_Path,            frag |-> "none"],
      [text |-> FRAG_GEMINI,          frag |-> "gemini"],
      [text |-> Part_GeminiMixed,     frag |-> "gemini"],
      [text |-> FRAG_ANTHROPIC,       frag |-> "anthropic"],
      [text |-> Part_AnthropicMixed,  frag |-> "anthropic"],
      [text |-> FRAG_GROQ,            frag |-> "groq"],
      [text |-> Part_GroqUpper,       frag |-> "groq"],
      [text |-> FRAG_OPENROUTER,      frag |-> "openrouter"],
      [text |-> Part_OpenRouterMixed, frag |-> "openrouter"],
      [text |-> Part_NearGroq,        frag |-> "none"],
      [text |-> Part_NearAnthropic,   frag |-> "none"],
      [text |-> Part_NearOpenRouter,  frag |-> "none"] }

RECURSIVE ConcatParts(_)
ConcatParts(ps) ==
    IF ps = << >> THEN << >> ELSE Head(ps).text \o ConcatParts(Tail(ps))

DetectPartSeqs == UNION { [1..n -> DetectParts] : n \in 0..MaxParts }

-----------------------------------------------------------------------------
(* Inputs of the chat model: table rows, environment keys, request fields. *)

Url_Gemini ==
    << "h", "t", "t", "p", "s", ":", "/", "/", "g", "e", "n", "e", "r", "a", "t", "i", "v", "e", "l", "a", "n", "g", "u", "a",
       "g", "e", ".", "g", "o", "o", "g", "l", "e", "a", "p", "i", "s", ".", "c", "o", "m", "/", "v", "1", "b", "e", "t", "a",
       "/", "m", "o", "d", "e", "l", "s", "/", "g", "e", "m", "i", "n", "i", "-", "2", ".", "5", "-", "f", "l", "a", "s", "h",
       ":", "g", "e", "n", "e", "r", "a", "t", "e", "C", "o", "n", "t", "e", "n", "t" >>

Url_GeminiWithKey ==
    << "h", "t", "t", "p", "s", ":", "/", "/", "g", "e", "n", "e", "r", "a", "t", "i", "v", "e", "l", "a", "n", "g", "u", "a",
       "g", "e", ".", "g", "o", "o", "g", "l", "e", "a", "p", "i", "s", ".", "c", "o", "m", "/", "v", "1", "b", "e", "t", "a",
       "/", "m", "o", "d", "e", "l", "s", "/", "g", "e", "m", "i", "n", "i", "-", "2", ".", "5", "-", "f", "l", "a", "s", "h",
       ":", "g", "e", "n", "e", "r", "a", "t", "e", "C", "o", "n", "t", "e", "n", "t", "?", "k", "e", "y", "=", "i", "n", "-",
       "u", "r", "l" >>

Url_Anthropic ==
    << "h", "t", "t", "p", "s", ":", "/", "/", "a", "p", "i", ".", "a", "n", "t", "h", "r", "o", "p", "i", "c", ".", "c", "o",
       "m", "/", "v", "1", "/", "m", "e", "s", "s", "a", "g", "e", "s" >>

Url_Groq ==
    << "h", "t", "t", "p", "s", ":", "/", "/", "a", "p", "i", ".", "g", "r", "o", "q", ".", "c", "o", "m", "/", "o", "p", "e",
       "n", "a", "i", "/", "v", "1", "/", "c", "h", "a", "t", "/", "c", "o", "m", "p", "l", "e", "t", "i", "o", "n", "s" >>

Url_GroqUpperHost ==
    << "h", "t", "t", "p", "s", ":", "/", "/", "A", "P", "I", ".", "G", "R", "O", "Q", ".", "C", "O", "M", "/", "o", "p", "e",
       "n", "a", "i", "/", "v", "1", "/", "c", "h", "a", "t", "/", "c", "o", "m", "p", "l", "e", "t", "i", "o", "n", "s" >>

Url_OpenRouter ==
    << "h", "t", "t", "p", "s", ":", "/", "/", "o", "p", "e", "n", "r", "o", "u", "t", "e", "r", ".", "a", "i", "/", "a", "p",
       "i", "/", "v", "1", "/", "c", "h", "a", "t", "/", "c", "o", "m", "p", "l", "e", "t", "i", "o", "n", "s" >>

Url_OpenAI ==
    << "h", "t", "t", "p", "s", ":", "/", "/", "a", "p", "i", ".", "o", "p", "e", "n", "a", "i", ".", "c", "o", "m", "/", "v",
       "1", "/", "c", "h", "a", "t", "/", "c", "o", "m", "p", "l", "e", "t", "i", "o", "n", "s" >>

Key_Stored ==
    << "s", "k", "-", "c", "u", "s", "t", "o", "m" >>

Key_Blank ==
    << " ", "\t", " " >>

Key_EnvOpenRouter ==
    << "o", "r", "-", "e", "n", "v" >>

Key_EnvGroq ==
    << "g", "q", "-", "e", "n", "v" >>

Key_EnvGemini ==
    << "g", "m", "-", "e", "n", "v" >>

Msg_Hola ==
    << "h", "o", "l", "a" >>

Msg_Blank ==
    << " ", " ", "\n" >>

Prompt_Piper ==
    << "E", "r", "e", "s", " ", "P", "i", "p", "e", "r", "." >>

Bearer ==
    << "B", "e", "a", "r", "e", "r", " " >>

SeedUrls ==
    << Url_Gemini, Url_GeminiWithKey, Url_Anthropic, Url_Groq, Url_GroqUpperHost,
       Url_OpenRouter, Url_OpenAI, << >>, Undefined >>

SeedKeys == << Undefined, << >>, Key_Blank, Key_Stored >>

\* one seeded (non-custom) row per URL and stored key
SeedModels ==
    { [id        |-> (u - 1) * Len(SeedKeys) + k,
       name      |-> "seed",
       url       |-> SeedUrls[u],
       api_key   |-> SeedKeys[k],
       is_custom |-> FALSE] : u \in 1..Len(SeedUrls), k \in 1..Len(SeedKeys) }

\* process.env values of lines 32-34: each key is set or not
EnvTables ==
    { [openrouter |-> o, groq |-> q, gemini |-> g] :
        o \in {Undefined, Key_EnvOpenRouter},
        q \in {Undefined, Key_EnvGroq},
        g \in {Undefined, Key_EnvGemini} }

ChatMessages == {Undefined, << >>, Msg_Blank, Msg_Hola, NonString}

ChatPrompts == {Undefined, << >>, Prompt_Piper}

\* a model_id of 0 stands for a missing or falsy model_id
TruthyId(id) == id # 0

NoRow == [id |-> 0, name |-> "", url |-> Undefined, api_key |-> Undefined,
          is_custom |-> FALSE]

-----------------------------------------------------------------------------
(* POST /api/chat: the pure parts. *)

\* res.status(status).json({success, error | response})
Res(status, success, error, response) ==
    [status |-> status, success |-> success, error |-> error,
     response |-> response]

\* the checks of lines 466-478 with the model_id check first
chatValidate_IdFirst(message, model_id) ==
    IF ~TruthyId(model_id) THEN "model_id requerido"
    ELSE IF ~Truthy(message) THEN "Mensaje requerido"
    ELSE IF message = NonString THEN "message.trim is not a function"
    ELSE IF trim(message) = << >> THEN "Mensaje requerido"
    ELSE "ok"

\* lines 466-478: the first failing check, "ok" when both pass; calling trim
\* on a value that is not a string throws a TypeError
chatValidate(message, model_id) ==
    IF ~Truthy(message) THEN "Mensaje requerido"
    ELSE IF message = NonString THEN "message.trim is not a function"
    ELSE IF trim(message) = << >> THEN "Mensaje requerido"
    ELSE IF ~TruthyId(model_id) THEN "model_id requerido"
    ELSE "ok"

\* the response a failed validation produces: 400 from the two returns, 500
\* from the catch block when trim threw
ValidationRes(v) ==
    IF v = "message.trim is not a function"
    THEN Res(500, FALSE, v, NoText)
    ELSE Res(400, FALSE, v, NoText)

\* API_KEYS[tipoAPI]: the table has no anthropic and no openai entry
ApiKeysGet(tipoAPI) ==
    IF tipoAPI \in DOMAIN API_KEYS THEN API_KEYS[tipoAPI] ELSE Undefined

\* line 503 without the || API_KEYS.openrouter fallback
EnvApiKey_NoFallback(tipoAPI) == ApiKeysGet(tipoAPI)

\* line 503: API_KEYS[tipoAPI] || API_KEYS.openrouter
EnvApiKey(tipoAPI) ==
    IF Truthy(ApiKeysGet(tipoAPI)) THEN ApiKeysGet(tipoAPI)
    ELSE API_KEYS.openrouter

\* lines 498-505: the stored key, or the environment key when it is blank
resolverApiKey(modelConfig) ==
    IF ~Truthy(modelConfig.api_key) \/ trim(modelConfig.api_key) = << >>
    THEN EnvApiKey(detectarTipoAPI(modelConfig.url))
    ELSE modelConfig.api_key

\* the handler without the check of line 507
NoApiKey_Unchecked(apiKey) == FALSE

\* line 507: !apiKey
NoApiKey(apiKey) == ~Truthy(apiKey)

\* the combination with the global instructions left out when a persona is
\* given
systemPromptFinal_PersonaOnly(systemPrompt) ==
    IF Truthy(systemPrompt) THEN systemPrompt ELSE INSTRUCCIONES_GLOBALES

\* lines 287-289
systemPromptFinal(systemPrompt) ==
    IF Truthy(systemPrompt)
    THEN INSTRUCCIONES_GLOBALES \o PromptSeparator \o systemPrompt
    ELSE INSTRUCCIONES_GLOBALES

Msg(role, content) == [role |-> role, content |-> content]

\* The fetch call llamarAPI makes for each kind (lines 296-321, 334-354,
\* 367-383, 396-410, 423-438): target URL, credential header, body.
llamarAPI_Request(tipoAPI, url, apiKey, message, systemPrompt) ==
    LET spf == systemPromptFinal(systemPrompt)
        system == IF Truthy(spf) THEN spf ELSE DefaultSystemPrompt
    IN  CASE tipoAPI = "gemini" ->
               [url         |-> IF includes(url, KeyParam) THEN url
                                ELSE url \o KeyParam \o apiKey,
                header      |-> "none",
                credential  |-> Undefined,
                model       |-> NoText,
                messages    |-> << Msg("text",
                                       IF Truthy(spf)
                                       THEN spf \o UsuarioSeparator \o message
                                       ELSE message) >>,
                temperature |-> "0.7",
                max_tokens  |-> "1000"]
          [] tipoAPI = "anthropic" ->
               [url         |-> url,
                header      |-> "x-api-key",
                credential  |-> apiKey,
                model       |-> "claude-3-sonnet-20240229",
                messages    |-> (IF Truthy(spf)
                                 THEN << Msg("user", spf),
                                         Msg("assistant", Entendido) >>
                                 ELSE << >>) \o << Msg("user", message) >>,
                temperature |-> NoText,
                max_tokens  |-> "1000"]
          [] tipoAPI = "groq" ->
               [url         |-> url,
                header      |-> "Authorization",
                credential  |-> Bearer \o apiKey,
                model       |-> "llama-3.3-70b-versatile",
                messages    |-> << Msg("system", system), Msg("user", message) >>,
                temperature |-> "0.7",
                max_tokens  |-> "1000"]
          [] tipoAPI = "openrouter" ->
               [url         |-> url,
                header      |-> "Authorization",
                credential  |-> Bearer \o apiKey,
                model       |-> "deepseek/deepseek-chat",
                messages    |-> << Msg("system", system), Msg("user", message) >>,
                temperature |-> NoText,
                max_tokens  |-> NoText]
          [] OTHER ->
               [url         |-> url,
                header      |-> "Authorization",
                credential  |-> Bearer \o apiKey,
                model       |-> NoText,
                messages    |-> << Msg("system", system), Msg("user", message) >>,
                temperature |-> "0.7",
                max_tokens  |-> "1000"]

-----------------------------------------------------------------------------
(* What a provider call can produce, and how llamarAPI reads it. *)

\* A parsed JSON object, reduced to the paths the code reads:
\*   errorMessage    data.error?.message
\*   candidatesText  data.candidates?.[0]?.content?.parts?.[0]?.text
\*   contentText     data.content?.[0]?.text
\*   choicesText     data.choices?.[0]?.message?.content
\* each NoText when some step of the path is missing.
JsonObject(errorMessage, candidatesText, contentText, choicesText) ==
    [json |-> "object", errorMessage |-> errorMessage,
     candidatesText |-> candidatesText, contentText |-> contentText,
     choicesText |-> choicesText]

\* the body is not JSON (response.json() rejects), or is the JSON value null
JsonOther(what) ==
    [json |-> what, errorMessage |-> NoText, candidatesText |-> NoText,
     contentText |-> NoText, choicesText |-> NoText]

ProviderBodies ==
    { JsonOther("invalid"), JsonOther("null"),
      JsonObject(NoText, NoText, NoText, NoText),
      JsonObject("rate limited", NoText, NoText, NoText),
      JsonObject("", NoText, NoText, NoText) }
    \cup { JsonObject(NoText, t, NoText, NoText) : t \in {"", "Hola"} }
    \cup { JsonObject(NoText, NoText, t, NoText) : t \in {"", "Hola"} }
    \cup { JsonObject(NoText, NoText, NoText, t) : t \in {"", "Hola"} }

\* fetch rejected (no response), or resolved with response.ok and a body
FetchFailed ==
    [transport |-> "failed", ok |-> FALSE, body |-> JsonOther("invalid")]

\* fetch of a URL that does not parse always rejects
ProviderOutcomes(url) ==
    IF ~Truthy(url) THEN {FetchFailed}
    ELSE {FetchFailed}
         \cup { [transport |-> "ok", ok |-> k, body |-> b] :
                    k \in BOOLEAN, b \in ProviderBodies }

\* the default messages of lines 327, 360, 389, 416, 444
DefaultError(tipoAPI) ==
    CASE tipoAPI = "gemini"     -> "Error en Gemini API"
      [] tipoAPI = "anthropic"  -> "Error en Claude API"
      [] tipoAPI = "groq"       -> "Error en Groq API"
      [] tipoAPI = "openrouter" -> "Error en OpenRouter API"
      [] OTHER                  -> "Error en API"

\* the text field each kind extracts (lines 330, 363, 392, 419, 447)
ExpectedText(tipoAPI, body) ==
    CASE tipoAPI = "gemini"    -> body.candidatesText
      [] tipoAPI = "anthropic" -> body.contentText
      [] OTHER                 -> body.choicesText

\* the property a null body is first read at
FirstRead(tipoAPI, ok) ==
    IF ~ok THEN "error"
    ELSE CASE tipoAPI = "gemini"    -> "candidates"
           [] tipoAPI = "anthropic" -> "content"
           [] OTHER                 -> "choices"

\* llamarAPI from the fetch on (lines 305-331 and the like, 451-456): either
\* the text returned or the Error thrown, with its message
llamarAPI_Result(tipoAPI, o) ==
    IF o.transport = "failed"
    THEN [threw |-> TRUE, text |-> "fetch failed"]
    ELSE IF o.body.json = "invalid"
    THEN [threw |-> TRUE, text |-> "Unexpected token < in JSON at position 0"]
    ELSE IF o.body.json = "null"
    THEN [threw |-> TRUE,
          text  |-> "Cannot read properties of null (reading "
                    \o FirstRead(tipoAPI, o.ok) \o ")"]
    ELSE IF ~o.ok
    THEN [threw |-> TRUE,
          text  |-> IF TruthyText(o.body.errorMessage)
                    THEN o.body.errorMessage ELSE DefaultError(tipoAPI)]
    ELSE [threw |-> FALSE,
          text  |-> IF TruthyText(ExpectedText(tipoAPI, o.body))
                    THEN ExpectedText(tipoAPI, o.body) ELSE "Sin respuesta"]

\* lines 527-534: the response of the handler to what llamarAPI produced
ChatResultRes(r) ==
    IF r.threw
    THEN Res(500, FALSE,
             IF TruthyText(r.text) THEN r.text ELSE "Error interno del servidor",
             NoText)
    ELSE Res(200, TRUE, NoText, r.text)

-----------------------------------------------------------------------------
(* POST /api/chat: the handler, one action per stretch between awaits. *)

NoRequest == [model_id |-> 0, message |-> Undefined, system_prompt |-> Undefined]

NoOutbound ==
    [tipoAPI |-> "none", apiKey |-> Undefined,
     request |-> [url |-> Undefined, header |-> "none", credential |-> Undefined,
                  model |-> NoText, messages |-> << >>,
                  temperature |-> NoText, max_tokens |-> NoText]]

NoOutcome == [transport |-> "none", ok |-> FALSE, body |-> JsonOther("invalid")]

\* a response sent without the return that ends the handler: the code after
\* it runs on and responds again
ChatFinish_NoReturn(r) ==
    /\ chat_res' = chat_res \o << r, r >>
    /\ chat_pc' = "done"
    /\ chat_net' = "none"

\* res.json(...) as the last thing the handler does
ChatFinish(r) ==
    /\ chat_res' = Append(chat_res, r)
    /\ chat_pc' = "done"
    /\ chat_net' = "none"

\* lines 463-485: the body is read and validated; when valid, the model
\* lookup is sent to the data store
ChatReceive ==
    /\ chat_pc = "idle"
    /\ \E message \in ChatMessages,
          model_id \in {0, nextId} \cup {m.id : m \in ia_models},
          system_prompt \in ChatPrompts :
          /\ chat_req' = [model_id |-> model_id, message |-> message,
                          system_prompt |-> system_prompt]
          /\ LET v == chatValidate(message, model_id)
             IN  IF v = "ok"
                 THEN /\ chat_pc' = "lookup"
                      /\ chat_net' = "pending"
                      /\ chat_nLookups' = chat_nLookups + 1
                      /\ UNCHANGED chat_res
                 ELSE /\ ChatFinish(ValidationRes(v))
                      /\ UNCHANGED chat_nLookups
    /\ UNCHANGED << API_KEYS, ia_models, chat_model, chat_out, chat_got,
                    chat_nCalls, modelVars, detectVars >>

\* .eq('id', model_id).single(): the one matching row, or an error when no
\* row matches or the store fails
SingleResults(model_id) ==
    { [data |-> NoRow, error |-> TRUE] }
    \cup { [data |-> m, error |-> FALSE] : m \in {x \in ia_models : x.id = model_id} }

\* lines 487-525: the lookup returned; not found, or the credential is
\* resolved and, when there is one, llamarAPI sends the provider request
ChatLookupReturn ==
    /\ chat_pc = "lookup"
    /\ chat_net = "pending"
    /\ \E r \in SingleResults(chat_req.model_id) :
          IF r.error \/ r.data = NoRow
          THEN /\ ChatFinish(Res(404, FALSE, "Modelo no encontrado", NoText))
               /\ UNCHANGED << chat_model, chat_out, chat_nCalls >>
          ELSE LET modelConfig == r.data
                   apiKey == resolverApiKey(modelConfig)
                   tipoAPI == detectarTipoAPI(modelConfig.url)
               IN  /\ chat_model' = modelConfig
                   /\ IF NoApiKey(apiKey)
                      THEN /\ ChatFinish(Res(500, FALSE,
                                  "API Key no configurada para este modelo",
                                  NoText))
                           /\ UNCHANGED << chat_out, chat_nCalls >>
                      ELSE /\ chat_out' =
                                [tipoAPI |-> tipoAPI, apiKey |-> apiKey,
                                 request |-> llamarAPI_Request(tipoAPI,
                                     modelConfig.url, apiKey, chat_req.message,
                                     chat_req.system_prompt)]
                           /\ chat_nCalls' = chat_nCalls + 1
                           /\ chat_pc' = "provider"
                           /\ chat_net' = "pending"
                           /\ UNCHANGED chat_res
    /\ UNCHANGED << API_KEYS, ia_models, chat_req, chat_got, chat_nLookups,
                    modelVars, detectVars >>

\* lines 323-331 and the like, 527-534: the provider call returned or
\* failed; llamarAPI returns or throws and the handler responds
ChatProviderReturn ==
    /\ chat_pc = "provider"
    /\ chat_net = "pending"
    /\ \E o \in ProviderOutcomes(chat_model.url) :
          /\ chat_got' = o
          /\ ChatFinish(ChatResultRes(llamarAPI_Result(chat_out.tipoAPI, o)))
    /\ UNCHANGED << API_KEYS, ia_models, chat_req, chat_model, chat_out,
                    chat_nLookups, chat_nCalls, modelVars, detectVars >>

\* the awaited call (line 481, or the fetch of llamarAPI) never settles:
\* neither call is given a timeout or an abort signal
ChatAwaitHangs ==
    /\ chat_pc \in {"lookup", "provider"}
    /\ chat_net = "pending"
    /\ chat_net' = "hung"
    /\ UNCHANGED << API_KEYS, ia_models, chat_pc, chat_req, chat_model,
                    chat_out, chat_got, chat_nLookups, chat_nCalls, chat_res,
                    modelVars, detectVars >>

-----------------------------------------------------------------------------
(* Initial values of the variables a specification does not use. *)

Clients == 1..NumClients

NoResponse == [status |-> 0, success |-> FALSE, error |-> NoText]

ChatIdle ==
    /\ chat_pc = "idle"
    /\ chat_req = NoRequest
    /\ chat_model = NoRow
    /\ chat_out = NoOutbound
    /\ chat_net = "none"
    /\ chat_got = NoOutcome
    /\ chat_nLookups = 0
    /\ chat_nCalls = 0
    /\ chat_res = << >>

ModelsIdle ==
    /\ add_res = NoResponse
    /\ del_pc = [c \in Clients |-> "idle"]
    /\ del_id = [c \in Clients |-> 0]
    /\ del_all = [c \in Clients |-> [isNull |-> FALSE, ids |-> {}]]
    /\ del_seen = [c \in Clients |-> 0]
    /\ del_res = [c \in Clients |-> NoResponse]

DetectIdle ==
    /\ det_pc = "idle"
    /\ det_parts = << >>
    /\ det_url = Undefined
    /\ det_tipo = "none"

-----------------------------------------------------------------------------
(* The chat specification: one POST /api/chat request against the seeded *)
(* table, under every environment credential table.                      *)

Init ==
    /\ API_KEYS \in EnvTables
    /\ ia_models = SeedModels
    /\ nextId = Cardinality(SeedModels) + 1
    /\ ChatIdle
    /\ ModelsIdle
    /\ DetectIdle

Next ==
    \/ ChatReceive
    \/ ChatLookupReturn
    \/ ChatProviderReturn
    \/ ChatAwaitHangs

Spec == Init /\ [][Next]_vars

\* The handler's continuations run whenever the awaited call settles; a call
\* that hangs leaves nothing to run.
LiveSpec == Spec /\ WF_vars(Next)

-----------------------------------------------------------------------------
(* Properties of POST /api/chat, checked under Spec. *)

IsPrefix(p, s) == Len(p) <= Len(s) /\ SubSeq(s, 1, Len(p)) = p

\* the request's message is missing or holds only white space
BlankMessage ==
    \/ chat_req.message \in {Undefined, << >>}
    \/ /\ chat_req.message # NonString
       /\ \A i \in 1..Len(chat_req.message) : chat_req.message[i] \in WhiteSpace

\* the stored api_key of the looked-up model is missing or blank
BlankStoredKey ==
    \/ chat_model.api_key \in {Undefined, << >>}
    \/ \A i \in 1..Len(chat_model.api_key) : chat_model.api_key[i] \in WhiteSpace

\* the environment credential the table holds for the model's detected kind
KindEnvKey ==
    LET kind == detectarTipoAPI(chat_model.url)
    IN  CASE kind = "gemini"     -> API_KEYS.gemini
          [] kind = "groq"       -> API_KEYS.groq
          [] kind = "openrouter" -> API_KEYS.openrouter
          [] OTHER               -> Undefined

C3_Expected ==
    IF ~BlankStoredKey THEN chat_model.api_key
    ELSE IF KindEnvKey # Undefined THEN KindEnvKey
    ELSE API_KEYS.openrouter

ConfigErrorRes == Res(500, FALSE, "API Key no configurada para este modelo", NoText)

\* C4 as stated: a model with neither a stored credential nor an environment
\* credential for its detected kind is answered 500 "API Key no configurada"
\* and no provider call is made.
C4_AsStated ==
    (chat_model # NoRow /\ BlankStoredKey /\ KindEnvKey = Undefined) =>
        /\ chat_res = << ConfigErrorRes >>
        /\ chat_nCalls = 0

\* C4 amended: a model with no stored credential, no environment credential
\* for its detected kind and no openrouter environment credential either is
\* answered 500 "API Key no configurada" and no provider call is made.
C4_NoCredentialAtAll ==
    (/\ chat_model # NoRow
     /\ BlankStoredKey
     /\ KindEnvKey = Undefined
     /\ API_KEYS.openrouter = Undefined) =>
        /\ chat_res = << ConfigErrorRes >>
        /\ chat_nCalls = 0

\* C4 witness: a groq model with a blank key, answered 500 with neither the
\* groq nor the openrouter credential set
C4_Witness ==
    /\ chat_pc = "done"
    /\ chat_model # NoRow
    /\ BlankStoredKey
    /\ detectarTipoAPI(chat_model.url) = "groq"
    /\ API_KEYS.groq = Undefined
    /\ API_KEYS.openrouter = Undefined
    /\ chat_res = << ConfigErrorRes >>

\* the text C6 names: the global policy, then a blank line and the character
\* prompt when one is given
C6_Effective ==
    IF chat_req.system_prompt \in {Undefined, << >>}
    THEN INSTRUCCIONES_GLOBALES
    ELSE INSTRUCCIONES_GLOBALES \o << "\n", "\n" >> \o chat_req.system_prompt

\* C6: in every provider request the instruction text (the first message,
\* or for gemini the one text part up to the user's turn) is the global
\* policy followed by the character prompt when present, the global policy
\* alone otherwise; it always starts with the global policy.
C6_GlobalPolicyFirst ==
    chat_nCalls > 0 =>
        LET first == chat_out.request.messages[1].content
        IN  /\ IsPrefix(INSTRUCCIONES_GLOBALES, first)
            /\ IF chat_out.tipoAPI = "gemini"
               THEN first = C6_Effective \o UsuarioSeparator \o chat_req.message
               ELSE first = C6_Effective

\* C6 witness: a provider request of a kind with a system role, built for a
\* request that carries a character prompt
C6_Witness ==
    /\ chat_nCalls > 0
    /\ chat_out.tipoAPI = "groq"
    /\ chat_req.system_prompt = Prompt_Piper
    /\ chat_out.request.messages[1].role = "system"

\* the provider reply carries error.message
C7_HasErrorMessage == chat_got.body.errorMessage \notin {NoText, ""}

\* C7 as stated: a provider reply with a failure status is answered 500 with
\* the reply's error.message when present and the kind's default message
\* otherwise; a reply with a success status and no expected text field is
\* answered with the text "Sin respuesta".
C7_AsStated ==
    (chat_pc = "done" /\ chat_got.transport = "ok") =>
        /\ ~chat_got.ok =>
              chat_res = << Res(500, FALSE,
                                IF C7_HasErrorMessage
                                THEN chat_got.body.errorMessage
                                ELSE DefaultError(chat_out.tipoAPI),
                                NoText) >>
        /\ (chat_got.ok /\ ExpectedText(chat_out.tipoAPI, chat_got.body) = NoText) =>
              chat_res = << Res(200, TRUE, NoText, "Sin respuesta") >>

\* C8: a request makes at most one lookup and at most one provider call, the
\* provider call only after the lookup returned a model and a credential
\* resolved, nothing is retried, and it ends with exactly one response,
\* either a success text or a failure with an error.
C8_OneOfEach ==
    /\ chat_nLookups <= 1
    /\ chat_nCalls <= 1
    /\ Len(chat_res) <= 1
    /\ chat_nCalls = 1 =>
          /\ chat_nLookups = 1
          /\ chat_model # NoRow
          /\ chat_out.apiKey \notin {Undefined, << >>}
    /\ chat_pc = "done" <=> Len(chat_res) = 1
    /\ \A i \in 1..Len(chat_res) :
          IF chat_res[i].success
          THEN chat_res[i].status = 200 /\ chat_res[i].response # NoText
          ELSE chat_res[i].status \in {400, 404, 500} /\ chat_res[i].error # NoText

\* C8 witness: the provider call failed and the request ended with the one
\* failure response, after one lookup and one call
C8_Witness ==
    /\ chat_pc = "done"
    /\ chat_nLookups = 1
    /\ chat_nCalls = 1
    /\ chat_got.transport = "ok"
    /\ ~chat_got.ok
    /\ Len(chat_res) = 1
    /\ chat_res[1].status = 500

\* C9 as stated, checked under LiveSpec: a request that was received is
\* eventually answered, whatever the data store and the provider do.
C9_EventuallyAnswered == (chat_pc # "idle") ~> (chat_pc = "done")

-----------------------------------------------------------------------------
(* POST /api/models and DELETE /api/models/:id.  Every store call is one  *)
(* atomic step; a handler with two store calls is two steps, and other     *)
(* requests run between them.                                              *)

\* lines 67-89: the three fields are required; the insert is one store call,
\* which assigns the id, and may fail
AddModel ==
    /\ nextId <= MaxRows
    /\ \E name \in {NoText, "Mi modelo"},
          url \in {Undefined, Url_OpenAI},
          api_key \in {Undefined, << >>, Key_Stored},
          failed \in BOOLEAN :
          IF ~TruthyText(name) \/ ~Truthy(url) \/ ~Truthy(api_key)
          THEN /\ add_res' = Res(400, FALSE, "Faltan campos requeridos", NoText)
               /\ UNCHANGED << ia_models, nextId >>
          ELSE IF failed
          THEN /\ add_res' = Res(500, FALSE, "store error", NoText)
               /\ UNCHANGED << ia_models, nextId >>
          ELSE /\ ia_models' = ia_models \cup
                      { [id |-> nextId, name |-> name, url |-> url,
                         api_key |-> api_key, is_custom |-> TRUE] }
               /\ nextId' = nextId + 1
               /\ add_res' = Res(200, TRUE, NoText, name)
    /\ UNCHANGED << API_KEYS, chatVars, del_pc, del_id, del_all, del_seen,
                    del_res, detectVars >>

\* lines 94-99: the request arrives and the read of all ids runs at the
\* store; its error is not looked at, and data is null when it failed
DeleteCount(c) ==
    /\ del_pc[c] = "idle"
    /\ \E id \in 1..MaxRows, failed \in BOOLEAN :
          /\ del_id' = [del_id EXCEPT ![c] = id]
          /\ del_all' = [del_all EXCEPT ![c] =
                            IF failed THEN [isNull |-> TRUE, ids |-> {}]
                            ELSE [isNull |-> FALSE,
                                  ids |-> {m.id : m \in ia_models}]]
    /\ del_seen' = [del_seen EXCEPT ![c] = Cardinality(ia_models)]
    /\ del_pc' = [del_pc EXCEPT ![c] = "counted"]
    /\ UNCHANGED << API_KEYS, ia_models, chatVars, nextId, add_res, del_res,
                    detectVars >>

\* lines 101-118: the last-model check on what the read returned, then the
\* delete by id as a second store call, which may fail
DeleteRemove(c) ==
    /\ del_pc[c] = "counted"
    /\ IF ~del_all[c].isNull /\ Cardinality(del_all[c].ids) <= 1
       THEN /\ del_res' = [del_res EXCEPT ![c] =
                   [status |-> 400, success |-> FALSE,
                    error |-> "No puedes eliminar el último modelo"]]
            /\ UNCHANGED ia_models
       ELSE \E failed \in BOOLEAN :
               IF failed
               THEN /\ del_res' = [del_res EXCEPT ![c] =
                           [status |-> 500, success |-> FALSE,
                            error |-> "store error"]]
                    /\ UNCHANGED ia_models
               ELSE /\ ia_models' = {m \in ia_models : m.id # del_id[c]}
                    /\ del_res' = [del_res EXCEPT ![c] =
                           [status |-> 200, success |-> TRUE, error |-> NoText]]
    /\ del_pc' = [del_pc EXCEPT ![c] = "done"]
    /\ UNCHANGED << API_KEYS, chatVars, nextId, add_res, del_id, del_all,
                    del_seen, detectVars >>

SeedRow(i) ==
    [id |-> i, name |-> "seed", url |-> Url_OpenAI, api_key |-> Undefined,
     is_custom |-> FALSE]

\* a table of one to MaxRows seeded rows, no request under way
ModelsInit ==
    /\ API_KEYS = [openrouter |-> Undefined, groq |-> Undefined,
                   gemini |-> Undefined]
    /\ \E k \in 1..MaxRows :
          /\ ia_models = {SeedRow(i) : i \in 1..k}
          /\ nextId = k + 1
    /\ ModelsIdle
    /\ ChatIdle
    /\ DetectIdle

ModelsNext ==
    \/ AddModel
    \/ \E c \in Clients : DeleteCount(c)
    \/ \E c \in Clients : DeleteRemove(c)

ModelsSpec == ModelsInit /\ [][ModelsNext]_vars

\* C2 as stated, for each request by the table its own read ran against:
\* with exactly one row the request is answered 400 and its step leaves the
\* table unchanged; with two or more rows the delete by id is issued whatever
\* is_custom says and, unless the store refuses it (500), the row is gone and
\* success is returned.
C2_AsStated ==
    [][\A c \in Clients :
          (del_pc[c] = "counted" /\ del_pc'[c] = "done") =>
              IF del_seen[c] = 1
              THEN del_res'[c].status = 400 /\ ia_models' = ia_models
              ELSE IF del_seen[c] >= 2
              THEN \/ del_res'[c].status = 500 /\ ia_models' = ia_models
                   \/ /\ del_res'[c].status = 200
                      /\ ia_models' = {m \in ia_models : m.id # del_id[c]}
              ELSE TRUE]_vars

\* C10 as stated, for runs in which every read of the row count succeeded:
\* the table never becomes empty.
C10_AsStated ==
    (\A c \in Clients : ~del_all[c].isNull) => ia_models # {}

-----------------------------------------------------------------------------
(* detectarTipoAPI on URLs concatenated from DetectParts. *)

DetectInit ==
    /\ API_KEYS = [openrouter |-> Undefined, groq |-> Undefined,
                   gemini |-> Undefined]
    /\ ia_models = {}
    /\ nextId = 1
    /\ ChatIdle
    /\ ModelsIdle
    /\ det_pc = "idle"
    /\ det_parts \in DetectPartSeqs
    /\ det_url \in {ConcatParts(det_parts)}
                   \cup (IF det_parts = << >> THEN {Undefined} ELSE {})
    /\ det_tipo = "none"

Detect ==
    /\ det_pc = "idle"
    /\ det_tipo' = detectarTipoAPI(det_url)
    /\ det_pc' = "done"
    /\ UNCHANGED << API_KEYS, ia_models, chatVars, modelVars, det_parts,
                    det_url >>

DetectNext == Detect

DetectSpec == DetectInit /\ [][DetectNext]_vars

\* the fragments the URL spells
C5_Frags == {det_parts[i].frag : i \in 1..Len(det_parts)}

\* C5: detectarTipoAPI returns one kind for every URL: gemini if it contains
\* the gemini fragment in any letter case, else anthropic, else groq, else
\* openrouter by their fragments, else openai; an empty or missing URL gives
\* openai, and with several fragments the earliest rule decides.
C5_Detection ==
    det_pc = "done" =>
        /\ det_tipo \in TiposAPI
        /\ det_tipo = IF "gemini" \in C5_Frags THEN "gemini"
                      ELSE IF "anthropic" \in C5_Frags THEN "anthropic"
                      ELSE IF "groq" \in C5_Frags THEN "groq"
                      ELSE IF "openrouter" \in C5_Frags THEN "openrouter"
                      ELSE "openai"

\* C5 witness: a URL spelling the openrouter fragment and then, in upper
\* case, the groq fragment was detected as groq
C5_Witness ==
    /\ det_pc = "done"
    /\ det_parts = << [text |-> FRAG_OPENROUTER, frag |-> "openrouter"],
                      [text |-> Part_GroqUpper, frag |-> "groq"] >>
    /\ det_tipo = "groq"

=============================================================================
